---------------------------- MODULE Spec2Model ----------------------------
(***************************************************************************)
(* A model of career_advisor.py: the provider chain resolved at import     *)
(* time (groq_client, openai_client), the dataset loader load_role_skills, *)
(* the generation entry points _chat / get_career_paths /                  *)
(* get_learning_plan and the skill-gap routine analyze_skill_gaps.         *)
(*                                                                         *)
(* Python str values are TLA+ strings; a value that may be absent (None,   *)
(* pandas NaN) is a record [na, s].                                        *)
(***************************************************************************)
EXTENDS Integers, Sequences, FiniteSets, TLC

VARIABLES
    pc,              \* "import" while the module body has not run, then "ready"
    Groq,            \* TRUE iff `from groq import Groq` succeeded (else Groq = None)
    OpenAI,          \* TRUE iff `from openai import OpenAI` succeeded
    GROQ_API_KEY,    \* os.getenv("GROQ_API_KEY"): None or a string
    groqCtorRaises,  \* environment: Groq(api_key=...) raises
    openaiCtorRaises,\* environment: OpenAI() raises
    groq_client,     \* module global: "None" or "Groq"
    openai_client,   \* module global: "None" or "OpenAI"
    file,            \* what pd.read_csv(DATA_PATH) finds
    role_skills_df,  \* the table the caller holds: [loaded, rows]
    call,            \* the last public call: [op, args, raised, value]
    requests,        \* provider requests issued by the last call, in order
    required         \* analyze_skill_gaps' local `required` at its return

vars == <<pc, Groq, OpenAI, GROQ_API_KEY, groqCtorRaises, openaiCtorRaises,
          groq_client, openai_client, file, role_skills_df, call, requests,
          required>>

-----------------------------------------------------------------------------
(* Bounds of the explored inputs.                                          *)

MaxRows == 2
MaxRequired == 50

-----------------------------------------------------------------------------
(* Python str, as far as the module uses it.                               *)

\* The characters of the model, in code point order (str comparison and
\* sorted() order strings by code point).
CodePointOrder == "\t ,ABCDEFGHIJKLMNOPQRSTUVWXYZabcdefghijklmnopqrstuvwxyz"
UpperCase == "ABCDEFGHIJKLMNOPQRSTUVWXYZ"
LowerCase == "abcdefghijklmnopqrstuvwxyz"
\* str.strip() removes every whitespace code point; the inputs explored use
\* these two
Whitespace == {" ", "\t"}

CharAt(s, i) == SubSeq(s, i, i)

OrdTable ==
    [c \in {CharAt(CodePointOrder, i) : i \in 1..Len(CodePointOrder)} |->
        CHOOSE i \in 1..Len(CodePointOrder) : CharAt(CodePointOrder, i) = c]

LowerTable ==
    [c \in DOMAIN OrdTable |->
        IF \E i \in 1..Len(UpperCase) : CharAt(UpperCase, i) = c
        THEN CharAt(LowerCase, CHOOSE i \in 1..Len(UpperCase) : CharAt(UpperCase, i) = c)
        ELSE c]

\* the first position >= i of s that holds no whitespace, Len(s) + 1 if none
RECURSIVE skip_left(_, _)
skip_left(s, i) ==
    IF i > Len(s) THEN i
    ELSE IF CharAt(s, i) \in Whitespace THEN skip_left(s, i + 1) ELSE i

\* the last position <= i of s that holds no whitespace, 0 if none
RECURSIVE skip_right(_, _)
skip_right(s, i) ==
    IF i < 1 THEN i
    ELSE IF CharAt(s, i) \in Whitespace THEN skip_right(s, i - 1) ELSE i

\* s.strip()
str_strip(s) == SubSeq(s, skip_left(s, 1), skip_right(s, Len(s)))

\* s.lower()
RECURSIVE str_lower(_)
str_lower(s) ==
    IF s = "" THEN ""
    ELSE LowerTable[CharAt(s, 1)] \o str_lower(SubSeq(s, 2, Len(s)))

\* s.split(","), scanning from position i with the current piece begun at start
RECURSIVE split_from(_, _, _)
split_from(s, start, i) ==
    IF i > Len(s) THEN <<SubSeq(s, start, Len(s))>>
    ELSE IF CharAt(s, i) = ","
         THEN <<SubSeq(s, start, i - 1)>> \o split_from(s, i + 1, i + 1)
         ELSE split_from(s, start, i + 1)

str_split(s) == split_from(s, 1, 1)

\* a[i..] < b[i..] for str a, b that agree before position i
RECURSIVE str_lt_from(_, _, _)
str_lt_from(a, b, i) ==
    IF i > Len(b) THEN FALSE
    ELSE IF i > Len(a) THEN TRUE
    ELSE IF CharAt(a, i) = CharAt(b, i) THEN str_lt_from(a, b, i + 1)
    ELSE OrdTable[CharAt(a, i)] < OrdTable[CharAt(b, i)]

\* a < b for str: code point by code point
str_lt(a, b) == str_lt_from(a, b, 1)

\* sorted(list(S)) for a set of str
RECURSIVE insert_sorted(_, _)
insert_sorted(l, x) ==
    IF l = <<>> THEN <<x>>
    ELSE IF str_lt(x, Head(l)) THEN <<x>> \o l
    ELSE <<Head(l)>> \o insert_sorted(Tail(l), x)

RECURSIVE sorted(_)
sorted(S) ==
    IF S = {} THEN <<>>
    ELSE LET x == CHOOSE y \in S : TRUE
         IN  insert_sorted(sorted(S \ {x}), x)

\* {x.strip().lower() for x in s.split(",") if x.strip()}
skill_set(s) ==
    LET parts == str_split(s)
    IN  {str_lower(str_strip(parts[i])) :
            i \in {j \in 1..Len(parts) : str_strip(parts[j]) /= ""}}

\* None / NaN and present values
None == [na |-> TRUE, s |-> ""]
NaN == [na |-> TRUE, s |-> ""]
Val(s) == [na |-> FALSE, s |-> s]

\* str(x) of a table cell
str(cell) == IF cell.na THEN "nan" ELSE cell.s

-----------------------------------------------------------------------------
(* Python float (IEEE 754 binary64, round to nearest, ties to even), as    *)
(* far as `int((len(matches) / len(required)) * 100)` uses it.  A positive *)
(* float is [zero |-> FALSE, m, e]: m is its 53-bit significand, most      *)
(* significant bit first and equal to 1, and its value is m * 2^e.         *)

MantissaBits == 53

FloatZero == [zero |-> TRUE, m |-> <<>>, e |-> 0]

\* n more bits of the quotient rem/den (0 <= rem < 2*den) after the bits in
\* acc, and what is left
RECURSIVE div_bits(_, _, _, _)
div_bits(rem, den, n, acc) ==
    IF n = 0 THEN [bits |-> acc, rem |-> rem]
    ELSE IF rem >= den
         THEN div_bits(2 * (rem - den), den, n - 1, Append(acc, 1))
         ELSE div_bits(2 * rem, den, n - 1, Append(acc, 0))

\* the least k with num * 2^k >= den
RECURSIVE lead_shift(_, _)
lead_shift(num, den) == IF num >= den THEN 0 ELSE 1 + lead_shift(2 * num, den)

\* bits + 1, one bit longer when the carry runs out of the top
RECURSIVE bits_inc(_)
bits_inc(bits) ==
    IF bits = <<>> THEN <<1>>
    ELSE IF bits[Len(bits)] = 0
         THEN SubSeq(bits, 1, Len(bits) - 1) \o <<1>>
         ELSE bits_inc(SubSeq(bits, 1, Len(bits) - 1)) \o <<0>>

\* the float nearest to kept * 2^e (+ a discarded tail), ties to even:
\* kept has MantissaBits bits, guard is the first discarded bit, sticky says
\* whether anything nonzero follows it
round_nearest_even(kept, guard, sticky, e) ==
    IF guard = 1 /\ (sticky \/ kept[Len(kept)] = 1)
    THEN LET up == bits_inc(kept)
         IN  IF Len(up) > MantissaBits
             THEN [zero |-> FALSE, m |-> SubSeq(up, 1, MantissaBits), e |-> e + 1]
             ELSE [zero |-> FALSE, m |-> up, e |-> e]
    ELSE [zero |-> FALSE, m |-> kept, e |-> e]

\* a / b for int a, b with 0 <= a <= b, b > 0 (long_true_divide: correctly rounded)
int_true_divide(a, b) ==
    IF a = 0 THEN FloatZero
    ELSE LET k == lead_shift(a, b)
             q == div_bits(a * (2 ^ k), b, MantissaBits + 1, <<>>)
         IN  round_nearest_even(SubSeq(q.bits, 1, MantissaBits),
                                q.bits[MantissaBits + 1],
                                q.rem /= 0,
                                0 - k - (MantissaBits - 1))

\* bits * c + carry for a small int c, least significant bit first
RECURSIVE bits_mul_lsb(_, _, _)
bits_mul_lsb(lsb, c, carry) ==
    IF lsb = <<>>
    THEN IF carry = 0 THEN <<>> ELSE <<carry % 2>> \o bits_mul_lsb(<<>>, c, carry \div 2)
    ELSE LET t == Head(lsb) * c + carry
         IN  <<t % 2>> \o bits_mul_lsb(Tail(lsb), c, t \div 2)

Reverse(q) == [i \in 1..Len(q) |-> q[Len(q) + 1 - i]]

\* x * c for float x and a small positive int c (c converts to float exactly)
float_mul_int(x, c) ==
    IF x.zero THEN FloatZero
    ELSE LET p == Reverse(bits_mul_lsb(Reverse(x.m), c, 0))
             d == Len(p) - MantissaBits
         IN  IF d = 0 THEN [zero |-> FALSE, m |-> p, e |-> x.e]
             ELSE round_nearest_even(SubSeq(p, 1, MantissaBits),
                                     p[MantissaBits + 1],
                                     \E i \in (MantissaBits + 2)..Len(p) : p[i] = 1,
                                     x.e + d)

RECURSIVE bits_value(_)
bits_value(bits) ==
    IF bits = <<>> THEN 0
    ELSE 2 * bits_value(SubSeq(bits, 1, Len(bits) - 1)) + bits[Len(bits)]

\* int(x) for a float 0 <= x < 2^MantissaBits: truncation
float_to_int(x) ==
    IF x.zero \/ MantissaBits + x.e <= 0 THEN 0
    ELSE bits_value(SubSeq(x.m, 1, MantissaBits + x.e))

\* 0 if not required else int((len(matches) / len(required)) * 100)
coverage_of(n_matches, n_required) ==
    IF n_required = 0 THEN 0
    ELSE float_to_int(float_mul_int(int_true_divide(n_matches, n_required), 100))

-----------------------------------------------------------------------------
(* Module initialisation: the provider chain.                              *)

Truthy(cell) == ~cell.na /\ cell.s /= ""

_MODEL == "llama-3.1-8b-instant"

\* init_groq_client without the credential test of line 26
init_groq_client_no_key_test ==
    IF Groq
    THEN IF groqCtorRaises
         THEN [raised |-> FALSE, client |-> "None"]
         ELSE [raised |-> FALSE, client |-> "Groq"]
    ELSE [raised |-> FALSE, client |-> "None"]

\* lines 23, 26-30: the value groq_client has after the module body ran, and
\* whether an exception left the module body
init_groq_client ==
    IF Groq /\ Truthy(GROQ_API_KEY)
    THEN IF groqCtorRaises
         THEN [raised |-> FALSE, client |-> "None"]
         ELSE [raised |-> FALSE, client |-> "Groq"]
    ELSE [raised |-> FALSE, client |-> "None"]

\* lines 24, 32-37
init_openai_client ==
    IF OpenAI
    THEN IF openaiCtorRaises
         THEN [raised |-> FALSE, client |-> "None"]
         ELSE [raised |-> FALSE, client |-> "OpenAI"]
    ELSE [raised |-> FALSE, client |-> "None"]

NoCall == [op |-> "none", args |-> <<>>, raised |-> FALSE, value |-> "None"]

ModuleInit ==
    /\ pc = "import"
    /\ LET g == init_groq_client
           o == init_openai_client
       IN  /\ pc' = IF g.raised \/ o.raised THEN "crashed" ELSE "ready"
           /\ groq_client' = g.client
           /\ openai_client' = IF g.raised THEN "None" ELSE o.client
    /\ UNCHANGED <<Groq, OpenAI, GROQ_API_KEY, groqCtorRaises, openaiCtorRaises,
                   file, role_skills_df, call, requests, required>>

-----------------------------------------------------------------------------
(* load_role_skills.  A file is [exists, parses, columns, rows]; a row is   *)
(* [role, skills], each a cell that is NaN or a str.                       *)

EmptyFrame == [columns |-> {"role", "skills"}, rows |-> <<>>]

\* pd.read_csv(DATA_PATH)
read_csv(f) ==
    IF ~f.exists THEN [raised |-> TRUE, value |-> "FileNotFoundError"]
    ELSE IF ~f.parses THEN [raised |-> TRUE, value |-> "ParserError"]
    ELSE [raised |-> FALSE, value |-> [columns |-> f.columns, rows |-> f.rows]]

\* a column read_csv found no str in holds floats (NaN), and has no .str
HasStrDtype(rows) == rows = <<>> \/ \E i \in 1..Len(rows) : ~rows[i].role.na

\* lines 46-47 on the frame read_csv returned
normalize_columns(df) ==
    IF "role" \notin df.columns THEN [raised |-> TRUE, value |-> "KeyError"]
    ELSE IF ~HasStrDtype(df.rows) THEN [raised |-> TRUE, value |-> "AttributeError"]
    ELSE IF "skills" \notin df.columns THEN [raised |-> TRUE, value |-> "KeyError"]
    ELSE [raised |-> FALSE,
          value |-> [columns |-> df.columns,
                     rows |-> [i \in 1..Len(df.rows) |->
                        [role |-> IF df.rows[i].role.na THEN NaN
                                  ELSE Val(str_lower(str_strip(df.rows[i].role.s))),
                         skills |-> IF df.rows[i].skills.na THEN Val("")
                                    ELSE df.rows[i].skills]]]]

\* load_role_skills with the try of line 43 closed after read_csv
load_role_skills_try_read_only(f) ==
    LET read == read_csv(f)
    IN  IF read.raised THEN [raised |-> FALSE, value |-> EmptyFrame]
        ELSE normalize_columns(read.value)

load_role_skills(f) ==
    LET read == read_csv(f)
        norm == normalize_columns(read.value)
    IN  IF read.raised THEN [raised |-> FALSE, value |-> EmptyFrame]
        ELSE IF norm.raised THEN [raised |-> FALSE, value |-> EmptyFrame]
        ELSE norm

LoadRoleSkills ==
    /\ pc = "ready"
    /\ LET r == load_role_skills(file)
       IN  /\ call' = [op |-> "load_role_skills", args |-> <<>>,
                       raised |-> r.raised, value |-> r.value]
           /\ role_skills_df' = IF r.raised THEN role_skills_df
                                ELSE [loaded |-> TRUE, df |-> r.value]
    /\ requests' = <<>>
    /\ UNCHANGED <<pc, Groq, OpenAI, GROQ_API_KEY, groqCtorRaises, openaiCtorRaises,
                   groq_client, openai_client, file, required>>

-----------------------------------------------------------------------------
(* analyze_skill_gaps                                                      *)

DEFAULT_SKILLS ==
    {"python", "sql", "statistics", "excel", "data visualization", "etl",
     "power bi", "tableau"}

\* line 114
normalize_role(target_role) ==
    str_lower(str_strip(IF target_role /= "" THEN target_role ELSE "data analyst"))

\* line 116: role_skills_df[role_skills_df['role'] == role]
matching_rows(role, df) ==
    SelectSeq(df.rows, LAMBDA r : ~r.role.na /\ r.role.s = role)

\* lines 117-119
RECURSIVE collect_skills(_, _)
collect_skills(rows, acc) ==
    IF rows = <<>> THEN acc
    ELSE collect_skills(Tail(rows), acc \cup skill_set(str(Head(rows).skills)))

\* required_skills reading the first matching row only
required_skills_first_row(role, df) ==
    LET rows == matching_rows(role, df)
        found == IF rows = <<>> THEN {} ELSE skill_set(str(Head(rows).skills))
    IN  IF found = {} THEN DEFAULT_SKILLS ELSE found

\* lines 116-122
required_skills(role, df) ==
    LET found == collect_skills(matching_rows(role, df), {})
    IN  IF found = {} THEN DEFAULT_SKILLS ELSE found

\* skill_gaps with the operands of the difference exchanged
skill_gaps_swapped(req, user) == sorted(user \ req)

\* line 123
skill_gaps(req, user) == sorted(req \ user)

\* line 124
skill_matches(req, user) == sorted(req \cap user)

analyze_skill_gaps(user_skills_csv, target_role, df) ==
    IF "role" \notin df.columns
           \/ ("skills" \notin df.columns
                 /\ matching_rows(normalize_role(target_role), df) /= <<>>)
    THEN [raised |-> TRUE, value |-> "KeyError", required |-> {}]
    ELSE LET user == skill_set(user_skills_csv)
             role == normalize_role(target_role)
             req == required_skills(role, df)
         IN  [raised |-> FALSE,
              value |-> [target_role |-> role,
                         have_skills |-> skill_matches(req, user),
                         missing_skills |-> skill_gaps(req, user),
                         coverage_percent |->
                             coverage_of(Len(skill_matches(req, user)),
                                         Cardinality(req))],
              required |-> req]

AnalyzeSkillGapsCall(user_skills_csv, target_role) ==
    /\ pc = "ready"
    /\ role_skills_df.loaded
    /\ LET r == analyze_skill_gaps(user_skills_csv, target_role, role_skills_df.df)
       IN  /\ call' = [op |-> "analyze_skill_gaps",
                       args |-> <<user_skills_csv, target_role>>,
                       raised |-> r.raised, value |-> r.value]
           /\ required' = r.required
    /\ requests' = <<>>
    /\ UNCHANGED <<pc, Groq, OpenAI, GROQ_API_KEY, groqCtorRaises, openaiCtorRaises,
                   groq_client, openai_client, file, role_skills_df>>

-----------------------------------------------------------------------------
(* _chat, get_career_paths, get_learning_plan.  A provider's answer to a   *)
(* request is the environment's: the request raises, the response has no   *)
(* choices, or it carries a content string.                                *)

SYSTEM_PROMPT == "You are an expert AI career mentor for students."

\* the three non-ASCII code points between "Advisor" and "overview" are
\* written "-" here
FALLBACK_HEADER == "**(Fallback) Career Advisor - overview**\n\n"
FALLBACK_BODY ==
    "I don't have access to Groq or OpenAI (no API keys or packages installed). "
    \o "Here's a short example output based on the provided profile prompt.\n\n"
FALLBACK_EXAMPLE ==
    "- Suggested roles: Data Analyst, Business Analyst, ML Engineer\n"
    \o "- Why fit: Matches skills and interests; entry-level friendly\n"
    \o "- Must-have skills: Python, SQL, Data Visualization\n"
    \o "- Starter projects: Sales dashboard, EDA on public dataset, simple ML model\n"
    \o "- Compensation (INR): 3.0L - 7.0L (entry-level, approximate)\n"

chat_request(provider, model, prompt, reply) ==
    [provider |-> provider, model |-> model,
     messages |-> <<[role |-> "system", content |-> SYSTEM_PROMPT],
                    [role |-> "user", content |-> prompt]>>,
     temperature |-> "0.4", reply |-> reply]

\* resp = client.chat.completions.create(...); return resp.choices[0].message.content
chat_completion(reply) ==
    IF reply.kind = "raise" THEN [raised |-> TRUE, value |-> "APIError"]
    ELSE IF reply.kind = "no_choices" THEN [raised |-> TRUE, value |-> "IndexError"]
    ELSE [raised |-> FALSE, value |-> reply.content]

\* chat with a fallback that quotes the prompt
chat_fallback_quotes_prompt(prompt, model, reply) ==
    LET m == IF Truthy(model) THEN model.s ELSE _MODEL
    IN  IF groq_client /= "None"
        THEN [raised |-> chat_completion(reply).raised,
              value |-> chat_completion(reply).value,
              requests |-> <<chat_request("groq", m, prompt, reply)>>]
        ELSE IF openai_client /= "None"
        THEN [raised |-> chat_completion(reply).raised,
              value |-> chat_completion(reply).value,
              requests |-> <<chat_request("openai", "gpt-4o-mini", prompt, reply)>>]
        ELSE [raised |-> FALSE,
              value |-> FALLBACK_HEADER \o FALLBACK_BODY \o prompt,
              requests |-> <<>>]

\* chat with a failed Provider A request caught and Provider B tried next
chat_retries_on_other_provider(prompt, model, reply) ==
    LET m == IF Truthy(model) THEN model.s ELSE _MODEL
    IN  IF groq_client /= "None" /\ ~chat_completion(reply).raised
        THEN [raised |-> FALSE,
              value |-> chat_completion(reply).value,
              requests |-> <<chat_request("groq", m, prompt, reply)>>]
        ELSE IF openai_client /= "None"
        THEN [raised |-> chat_completion(reply).raised,
              value |-> chat_completion(reply).value,
              requests |->
                  (IF groq_client /= "None"
                   THEN <<chat_request("groq", m, prompt, reply)>> ELSE <<>>)
                  \o <<chat_request("openai", "gpt-4o-mini", prompt, reply)>>]
        ELSE [raised |-> FALSE,
              value |-> FALLBACK_HEADER \o FALLBACK_BODY \o FALLBACK_EXAMPLE,
              requests |->
                  IF groq_client /= "None"
                  THEN <<chat_request("groq", m, prompt, reply)>> ELSE <<>>]

\* lines 52-92; model is None or a str
chat(prompt, model, reply) ==
    LET m == IF Truthy(model) THEN model.s ELSE _MODEL
    IN  IF groq_client /= "None"
        THEN [raised |-> chat_completion(reply).raised,
              value |-> chat_completion(reply).value,
              requests |-> <<chat_request("groq", m, prompt, reply)>>]
        ELSE IF openai_client /= "None"
        THEN [raised |-> chat_completion(reply).raised,
              value |-> chat_completion(reply).value,
              requests |-> <<chat_request("openai", "gpt-4o-mini", prompt, reply)>>]
        ELSE [raised |-> FALSE,
              value |-> FALLBACK_HEADER \o FALLBACK_BODY \o FALLBACK_EXAMPLE,
              requests |-> <<>>]

\* lines 95-109
career_paths_prompt(skills, interests, education, experience) ==
    "\n    Profile:\n    - Education: " \o education
    \o "\n    - Experience: " \o experience
    \o "\n    - Skills: " \o skills
    \o "\n    - Interests: " \o interests
    \o "\n\n    Task: Suggest 4-6 high-demand career paths suitable for the profile in India, with for each:"
    \o "\n    - What the role does (1-2 lines)"
    \o "\n    - Why it's a fit for this profile"
    \o "\n    - 3 must-have skills"
    \o "\n    - Typical starter projects"
    \o "\n    - Entry-level compensation range (INR, realistic)"
    \o "\n    Format as markdown with headings and bullet points.\n    "

\* lines 134-144
learning_plan_prompt(skills, interests, duration, target_role) ==
    "\n    Create a step-by-step learning plan to become a strong "
    \o (IF target_role /= "" THEN target_role ELSE "Data Analyst")
    \o " in " \o duration \o "."
    \o "\n    Student's current skills: " \o skills
    \o "\n    Interests: " \o interests
    \o "\n    Structure:"
    \o "\n    - Phases with timelines (Week 1-2, etc.)"
    \o "\n    - Exact outcomes and checkpoints"
    \o "\n    - Free resources (YouTube, docs, datasets, practice sites)"
    \o "\n    - 3 portfolio projects with acceptance criteria and how to present results"
    \o "\n    Keep it concise, actionable, and India-centric.\n    "

\* ChatCall dropping a client whose request failed
ChatCall_drops_failed_client(op, args, prompt, model, reply) ==
    /\ pc = "ready"
    /\ LET r == chat(prompt, model, reply)
       IN  /\ call' = [op |-> op, args |-> args, raised |-> r.raised, value |-> r.value]
           /\ requests' = r.requests
           /\ groq_client' = IF r.raised THEN "None" ELSE groq_client
    /\ UNCHANGED <<pc, Groq, OpenAI, GROQ_API_KEY, groqCtorRaises, openaiCtorRaises,
                   openai_client, file, role_skills_df, required>>

\* one invocation of _chat on behalf of the public operation op
ChatCall(op, args, prompt, model, reply) ==
    /\ pc = "ready"
    /\ LET r == chat(prompt, model, reply)
       IN  /\ call' = [op |-> op, args |-> args, raised |-> r.raised, value |-> r.value]
           /\ requests' = r.requests
    /\ UNCHANGED <<pc, Groq, OpenAI, GROQ_API_KEY, groqCtorRaises, openaiCtorRaises,
                   groq_client, openai_client, file, role_skills_df, required>>

-----------------------------------------------------------------------------
(* Explored inputs.                                                        *)

Replies ==
    {[kind |-> "raise", content |-> ""], [kind |-> "no_choices", content |-> ""],
     [kind |-> "ok", content |-> "## Data Analyst"]}

Prompts == {"", "Which career suits me?"}
Models == {None, Val(""), Val("llama-3.3-70b-versatile")}
SkillTexts == {"Python, SQL"}
DurationTexts == {"3 months"}
InterestTexts == {"AI"}
EducationTexts == {"B.Tech"}
ExperienceTexts == {"", "1 year"}

PlanRoleTexts == {"", "ML Engineer"}

UserSkillInputs == {"", "Python, SQL", " excel ,Tableau,, ETL"}
TargetRoleInputs == {"", " ", " Data Analyst ", "data analyst", "ML ENGINEER"}

RawRows ==
    {[role |-> Val(" Data Analyst"), skills |-> Val("Python, SQL,Excel")],
     [role |-> Val("data analyst"), skills |-> Val(" sql ,, Tableau ")],
     [role |-> Val("ML Engineer"), skills |-> NaN],
     [role |-> NaN, skills |-> Val("Python")],
     [role |-> Val(" "), skills |-> Val("etl")]}

RECURSIVE SeqsUpTo(_, _)
SeqsUpTo(S, n) ==
    IF n = 0 THEN {<<>>}
    ELSE LET shorter == SeqsUpTo(S, n - 1)
         IN  shorter \cup {Append(q, x) : q \in shorter, x \in S}

GoodFiles ==
    {[exists |-> TRUE, parses |-> TRUE, columns |-> {"role", "skills"}, rows |-> rows] :
        rows \in SeqsUpTo(RawRows, MaxRows)}

BadFiles ==
    {[exists |-> FALSE, parses |-> FALSE, columns |-> {}, rows |-> <<>>],
     [exists |-> TRUE, parses |-> FALSE, columns |-> {}, rows |-> <<>>],
     [exists |-> TRUE, parses |-> TRUE, columns |-> {"skills"},
      rows |-> <<[role |-> NaN, skills |-> Val("Python")]>>],
     [exists |-> TRUE, parses |-> TRUE, columns |-> {"role"},
      rows |-> <<[role |-> Val("data analyst"), skills |-> NaN]>>]}

Files == GoodFiles \cup BadFiles

-----------------------------------------------------------------------------
(* The program: the module is imported, then the caller's operations run   *)
(* one at a time, each to completion.                                      *)

Chat ==
    \E prompt \in Prompts, model \in Models, reply \in Replies :
        ChatCall("_chat", <<prompt, model>>, prompt, model, reply)

GetCareerPaths ==
    \E skills \in SkillTexts, interests \in InterestTexts,
       education \in EducationTexts, experience \in ExperienceTexts,
       reply \in Replies :
        ChatCall("get_career_paths", <<skills, interests, education, experience>>,
                 career_paths_prompt(skills, interests, education, experience),
                 None, reply)

GetLearningPlan ==
    \E skills \in SkillTexts, interests \in InterestTexts,
       duration \in DurationTexts, target_role \in PlanRoleTexts,
       reply \in Replies :
        ChatCall("get_learning_plan", <<skills, interests, duration, target_role>>,
                 learning_plan_prompt(skills, interests, duration, target_role),
                 None, reply)

AnalyzeSkillGaps ==
    \E user_skills_csv \in UserSkillInputs, target_role \in TargetRoleInputs :
        AnalyzeSkillGapsCall(user_skills_csv, target_role)

\* the caller's usual request: the profile's skills against the default role
AnalyzeDefaultRole ==
    \E user_skills_csv \in SkillTexts, target_role \in {"", " Data Analyst "} :
        AnalyzeSkillGapsCall(user_skills_csv, target_role)

InitCommon ==
    /\ pc = "import"
    /\ groq_client = "None"
    /\ openai_client = "None"
    /\ role_skills_df = [loaded |-> FALSE, df |-> EmptyFrame]
    /\ call = NoCall
    /\ requests = <<>>
    /\ required = {}

SampleFile ==
    [exists |-> TRUE, parses |-> TRUE, columns |-> {"role", "skills"},
     rows |-> <<[role |-> Val(" Data Analyst"), skills |-> Val("Python, SQL,Excel")]>>]

\* every environment of the provider chain, over one dataset
Init ==
    /\ InitCommon
    /\ Groq \in BOOLEAN
    /\ OpenAI \in BOOLEAN
    /\ GROQ_API_KEY \in {None, Val(""), Val("gsk_live")}
    /\ groqCtorRaises \in BOOLEAN
    /\ openaiCtorRaises \in BOOLEAN
    /\ file = SampleFile

Next ==
    \/ ModuleInit
    \/ LoadRoleSkills
    \/ AnalyzeDefaultRole
    \/ Chat
    \/ GetCareerPaths
    \/ GetLearningPlan

Spec == Init /\ [][Next]_vars

\* the analytic path over every dataset, in an environment with no provider
\* library installed
InitGap ==
    /\ InitCommon
    /\ Groq = FALSE
    /\ OpenAI = FALSE
    /\ GROQ_API_KEY = None
    /\ groqCtorRaises = FALSE
    /\ openaiCtorRaises = FALSE
    /\ file \in Files

NextGap ==
    \/ ModuleInit
    \/ LoadRoleSkills
    \/ AnalyzeSkillGaps

SpecGap == InitGap /\ [][NextGap]_vars

-----------------------------------------------------------------------------
(* analyze_skill_gaps over every size of the required set up to            *)
(* MaxRequired and every number of them the user has: the dataset holds    *)
(* one role with the first n skills of a list, the user names the first h. *)

\* the i-th skill of the list: "aa", "ab", ..., "az", "ba", ...
NthSkill(i) ==
    CharAt(LowerCase, ((i - 1) \div Len(LowerCase)) + 1)
    \o CharAt(LowerCase, ((i - 1) % Len(LowerCase)) + 1)

RECURSIVE FirstSkills(_)
FirstSkills(n) ==
    IF n = 0 THEN ""
    ELSE IF n = 1 THEN NthSkill(1)
    ELSE FirstSkills(n - 1) \o "," \o NthSkill(n)

SizedFile(n) ==
    [exists |-> TRUE, parses |-> TRUE, columns |-> {"role", "skills"},
     rows |-> <<[role |-> Val("Data Analyst"), skills |-> Val(FirstSkills(n))]>>]

\* the table is loaded and the caller is about to call
\* analyze_skill_gaps(call.args[1], call.args[2], role_skills_df)
InitCov ==
    /\ pc = "ready"
    /\ Groq = FALSE
    /\ OpenAI = FALSE
    /\ GROQ_API_KEY = None
    /\ groqCtorRaises = FALSE
    /\ openaiCtorRaises = FALSE
    /\ groq_client = "None"
    /\ openai_client = "None"
    /\ requests = <<>>
    /\ required = {}
    /\ \E n \in 1..MaxRequired :
        /\ file = SizedFile(n)
        /\ role_skills_df = [loaded |-> TRUE, df |-> load_role_skills(file).value]
        /\ \E h \in 0..n :
            call = [op |-> "invoke", args |-> <<FirstSkills(h), "Data Analyst">>,
                    raised |-> FALSE, value |-> "None"]

AnalyzeInvoked ==
    /\ call.op = "invoke"
    /\ AnalyzeSkillGapsCall(call.args[1], call.args[2])

NextCov == AnalyzeInvoked

SpecCov == InitCov /\ [][NextCov]_vars

-----------------------------------------------------------------------------
(* Properties.                                                             *)

Range(q) == {q[i] : i \in 1..Len(q)}

ChatOps == {"_chat", "get_career_paths", "get_learning_plan"}

Analyzed == call.op = "analyze_skill_gaps" /\ ~call.raised

Contains(s, sub) ==
    \E i \in 1..(Len(s) - Len(sub) + 1) : SubSeq(s, i, i + Len(sub) - 1) = sub

\* the skills of the table's rows under `role`, as the specification words it:
\* the trimmed, lowercased, non-empty comma-separated tokens of every row
\* whose role is `role`
RowTokens(role) ==
    UNION {skill_set(str(role_skills_df.df.rows[i].skills)) :
            i \in {j \in 1..Len(role_skills_df.df.rows) :
                     role_skills_df.df.rows[j].role = Val(role)}}

EightDefaults ==
    {"python", "sql", "statistics", "excel", "data visualization", "etl",
     "power bi", "tableau"}

\* the dataset is one load_role_skills cannot read: no file, a parse error,
\* no role or skills column, or a role column without text
FileFails ==
    \/ ~file.exists
    \/ ~file.parses
    \/ "role" \notin file.columns
    \/ "skills" \notin file.columns
    \/ (file.rows /= <<>> /\ \A i \in 1..Len(file.rows) : file.rows[i].role.na)

\* C1: have_skills and missing_skills partition the required set of the call:
\* their union is `required` and they share no element.
C1_HaveMissingPartitionRequired ==
    Analyzed =>
        /\ Range(call.value.have_skills) \cup Range(call.value.missing_skills) = required
        /\ Range(call.value.have_skills) \cap Range(call.value.missing_skills) = {}

C1_Witness ==
    /\ Analyzed
    /\ call.value.have_skills /= <<>>
    /\ call.value.missing_skills /= <<>>

\* C2: coverage_percent is floor(100 * |have_skills| / |required|) over the
\* integers and lies in 0..100, for every size of the required set.
C2_CoverageIsIntegerFloor ==
    Analyzed =>
        /\ call.value.coverage_percent
             = (100 * Len(call.value.have_skills)) \div Cardinality(required)
        /\ call.value.coverage_percent \in 0..100

C5_ProviderFailurePropagates ==
    (pc = "ready" /\ call.op \in ChatOps) =>
        /\ Len(requests) <= 1
        /\ (requests /= <<>> /\ requests[1].reply.kind /= "ok") =>
              /\ call.raised
              /\ ~Contains(call.value, "(Fallback)")
              /\ requests[1].provider
                   = IF groq_client /= "None" THEN "groq" ELSE "openai"

C5_Witness ==
    /\ call.op \in ChatOps
    /\ call.raised
    /\ groq_client = "Groq" /\ openai_client = "OpenAI"
    /\ Len(requests) = 1
    /\ requests[1].reply.kind = "raise"

\* C6: a target_role that is empty or only whitespace is replaced by
\* "data analyst": the lookup uses the rows of "data analyst" and the
\* returned target_role is "data analyst".
C6_BlankRoleBecomesDataAnalyst ==
    (Analyzed /\ str_strip(call.args[2]) = "") =>
        /\ call.value.target_role = "data analyst"
        /\ required = IF RowTokens("data analyst") = {} THEN EightDefaults
                      ELSE RowTokens("data analyst")

\* C7: required is the union of the tokens of ALL rows whose role is the
\* normalized target role, and the eight defaults when that union is empty;
\* it is never empty.
C7_RequiredAggregatesAllRows ==
    Analyzed =>
        /\ required = IF RowTokens(call.value.target_role) = {} THEN EightDefaults
                      ELSE RowTokens(call.value.target_role)
        /\ required /= {}

C7_Witness ==
    /\ Analyzed
    /\ Len(role_skills_df.df.rows) = 2
    /\ role_skills_df.df.rows[1].role = role_skills_df.df.rows[2].role
    /\ required = {"python", "sql", "excel", "tableau"}

\* C8: two target roles that differ only in letter case and in leading or
\* trailing whitespace give identical results in all four fields.
C8_RoleCaseAndPaddingInsensitive ==
    Analyzed =>
        \A other \in TargetRoleInputs :
            str_lower(str_strip(other)) = str_lower(str_strip(call.args[2])) =>
                analyze_skill_gaps(call.args[1], other, role_skills_df.df).value
                    = call.value

\* C9: load_role_skills never raises; on a missing file, a parse error or a
\* missing or non-text role or skills column it returns zero rows under the
\* columns role and skills, and analyze_skill_gaps on that table returns a
\* result built from the default skill set without raising.
C9_LoadFailureGivesEmptyTable ==
    /\ call.op = "load_role_skills" => ~call.raised
    /\ (role_skills_df.loaded /\ FileFails) =>
          /\ role_skills_df.df.rows = <<>>
          /\ role_skills_df.df.columns = {"role", "skills"}
    /\ (call.op = "analyze_skill_gaps" /\ FileFails) =>
          /\ ~call.raised
          /\ required = EightDefaults
          /\ Range(call.value.have_skills) \cup Range(call.value.missing_skills)
               = EightDefaults

C9_Witness ==
    /\ Analyzed
    /\ "role" \notin file.columns
    /\ role_skills_df.df.rows = <<>>
    /\ call.value.have_skills /= <<>>

\* C10: once the module is initialised, no operation changes groq_client or
\* openai_client, a failed provider request included.
C10_ClientsFixedAfterStartup ==
    [][pc = "ready" => (groq_client' = groq_client /\ openai_client' = openai_client)]_vars

C10_Witness ==
    /\ call.op \in ChatOps
    /\ call.raised
    /\ groq_client = "Groq"
    /\ Len(requests) = 1
    /\ requests[1].provider = "groq"
=============================================================================
